---- MODULE Spec2Model ----
(***************************************************************************)
(* Model of the prudent-wealth-advisor backend.                            *)
(*                                                                         *)
(*   Spec       stream_response (api/streaming.py): the SSE formatter that *)
(*              consumes the graph's event feed and emits chunks.          *)
(*   GraphSpec  the agent graph (agent/graph.py): router, smalltalk,       *)
(*              agent and tools nodes and the edges between them.          *)
(*                                                                         *)
(* Text is a sequence of one-character strings.  The input alphabet holds  *)
(* no space character, so a space in an emitted delta was put there by the *)
(* formatter.                                                              *)
(***************************************************************************)
EXTENDS Integers, Sequences, FiniteSets, TLC

\* ---------------------------------------------------------------- bounds
MaxEvents   == 2      \* items of the event feed consumed in one turn
MaxFragLen  == 2      \* characters in one text fragment
MaxMessages == 2      \* user messages of one request
MaxRounds   == 2      \* agent invocations in one turn
MaxToolCalls == 2     \* tool calls requested by one assistant message
MaxRequests == 2      \* requests handled by the endpoint

\* ------------------------------------------------------------- vocabulary
NL       == "\n"
SPACE    == " "
Alphabet == {"a", NL}
Texts    == UNION {[1..n -> Alphabet] : n \in 0..MaxFragLen}

None     == [type |-> "None"]

Fields   == {"content", "reasoning_content"}
IgnoreSets == {{}, {"router"}}
ResponseId == "chatcmpl-1"

\* A content block of an AIMessageChunk's content list.
TextBlock(t)     == [type |-> "text", text |-> t]
ThinkingBlock(t) == [type |-> "thinking", thinking |-> t]
OtherBlock       == [type |-> "image_url"]
BareItem         == [type |-> "str"]       \* a list item that is not a dict
Blocks == {TextBlock(t) : t \in Texts} \cup {ThinkingBlock(t) : t \in Texts}
            \cup {OtherBlock, BareItem}

\* A message chunk: an AIMessageChunk whose content is a list of blocks or a
\* plain string, or a chunk of another message class.
AIMessageChunk(ctype, c) == [cls |-> "AIMessageChunk", ctype |-> ctype, content |-> c]
Chunks == {AIMessageChunk("list", <<b>>) : b \in Blocks}
            \cup {AIMessageChunk("list", <<>>)}
            \cup {AIMessageChunk("list", <<ThinkingBlock(<<"a">>), TextBlock(<<"a", NL>>)>>)}
            \cup {AIMessageChunk("str", t) : t \in {<<>>, <<"a">>, <<"a", NL>>}}
            \cup {[cls |-> "ToolMessage", ctype |-> "str", content |-> <<"a">>]}

\* An item of graph.astream's feed: (mode, payload).  In 'messages' mode the
\* payload is the pair (chunk, metadata); an item of another mode carries a
\* payload that is no such pair.
MessagesItem(c, n) == [mode |-> "messages", pair |-> TRUE, chunk |-> c, node |-> n]
OtherModeItem      == [mode |-> "other_mode", pair |-> FALSE]
\* The agent node streams every kind of chunk; the router node's chunks are
\* a few representatives of them.
RouterChunks == {AIMessageChunk("list", <<TextBlock(<<"a", NL>>)>>),
                 AIMessageChunk("list", <<TextBlock(<<"a">>)>>),
                 AIMessageChunk("list", <<ThinkingBlock(<<"a", NL>>)>>)}
FeedItems == {MessagesItem(c, "agent") : c \in Chunks}
               \cup {MessagesItem(c, "router") : c \in RouterChunks}
               \cup {OtherModeItem}

\* ------------------------------------------------------- string functions
RECURSIVE NormalizeNewlines(_)
\* re.sub(r"\n{1,}", "\n", s): every maximal run of newlines becomes one.
NormalizeNewlines(s) ==
    IF Len(s) = 0 THEN <<>>
    ELSE IF Len(s) >= 2 /\ s[1] = NL /\ s[2] = NL
         THEN NormalizeNewlines(Tail(s))
         ELSE <<s[1]>> \o NormalizeNewlines(Tail(s))

\* str.rfind("\n"): the 0-based index of the last newline, -1 if there is none.
rfind(s) ==
    IF \E i \in 1..Len(s) : s[i] = NL
    THEN (CHOOSE i \in 1..Len(s) : s[i] = NL /\ \A j \in (i+1)..Len(s) : s[j] # NL) - 1
    ELSE -1

\* Python truthiness of an optional string field of a delta.
FieldText(delta, f) == IF f \in DOMAIN delta THEN delta[f] ELSE <<>>

\* ---------------------------------------------------- parse_message_chunk
\* parse_message_chunk that reads a block of an unknown type as a line of
\* text.
parse_message_chunk_unknown_as_text(chunk) ==
    IF chunk.cls # "AIMessageChunk" \/ Len(chunk.content) = 0
    THEN None
    ELSE IF chunk.ctype = "list"
    THEN LET item == chunk.content[1] IN
         IF item.type = "str" THEN None
         ELSE IF item.type = "thinking"
         THEN [type |-> "ChatCompletionChoice",
               delta |-> [reasoning_content |-> NormalizeNewlines(item.thinking),
                          role |-> "assistant"],
               finish_reason |-> "null"]
         ELSE IF item.type = "text"
         THEN [type |-> "ChatCompletionChoice",
               delta |-> [content |-> NormalizeNewlines(item.text),
                          role |-> "assistant"],
               finish_reason |-> "null"]
         ELSE [type |-> "ChatCompletionChoice",
               delta |-> [content |-> <<NL>>, role |-> "assistant"],
               finish_reason |-> "null"]
    ELSE None

parse_message_chunk(chunk) ==
    IF chunk.cls # "AIMessageChunk" \/ Len(chunk.content) = 0
    THEN None
    ELSE IF chunk.ctype = "list"
    THEN LET item == chunk.content[1] IN
         IF item.type = "str" THEN None          \* not a dict: falls through
         ELSE IF item.type = "thinking"
         THEN [type |-> "ChatCompletionChoice",
               delta |-> [reasoning_content |-> NormalizeNewlines(item.thinking),
                          role |-> "assistant"],
               finish_reason |-> "null"]
         ELSE IF item.type = "text"
         THEN [type |-> "ChatCompletionChoice",
               delta |-> [content |-> NormalizeNewlines(item.text),
                          role |-> "assistant"],
               finish_reason |-> "null"]
         ELSE None
    ELSE None                                    \* plain string: falls through

\* ------------------------------------------------------- yield_from_buffer
\* The SSE event built from a ChatCompletionChunk (model_dump_json with
\* exclude_unset: the delta holds only the fields that were set).
CompletionChunk(id, delta, finish) ==
    [type |-> "chunk", id |-> id, object |-> "chat.completion.chunk",
     choices |-> <<[delta |-> delta, index |-> 0, finish_reason |-> finish]>>]
DoneEvent == [type |-> "DONE"]

\* The text a chunk's delta carries for the field it is built for.
DeltaText(to_yield) == to_yield \o <<SPACE>>

\* yield_from_buffer that never clears is_first_chunk.
yield_from_buffer_keeps_first(buffer_text, field_name, is_final, first, id) ==
    LET last_newline_idx == rfind(buffer_text)
        held     == ~is_final /\ last_newline_idx = -1
        to_yield == IF is_final THEN buffer_text
                    ELSE SubSeq(buffer_text, 1, last_newline_idx + 1)
        remaining == IF is_final THEN <<>>
                     ELSE SubSeq(buffer_text, last_newline_idx + 2, Len(buffer_text))
        delta == IF first
                 THEN (field_name :> DeltaText(to_yield)) @@ ("role" :> "assistant")
                 ELSE (field_name :> DeltaText(to_yield))
    IN  IF held
        THEN [sse |-> None, remaining |-> buffer_text, is_first_chunk |-> first]
        ELSE IF Len(to_yield) > 0
        THEN [sse |-> CompletionChunk(id, delta, "null"),
              remaining |-> remaining, is_first_chunk |-> first]
        ELSE [sse |-> None, remaining |-> remaining, is_first_chunk |-> first]

\* yield_from_buffer that builds the delta with both text fields set.
yield_from_buffer_both_fields(buffer_text, field_name, is_final, first, id) ==
    LET last_newline_idx == rfind(buffer_text)
        held     == ~is_final /\ last_newline_idx = -1
        to_yield == IF is_final THEN buffer_text
                    ELSE SubSeq(buffer_text, 1, last_newline_idx + 1)
        remaining == IF is_final THEN <<>>
                     ELSE SubSeq(buffer_text, last_newline_idx + 2, Len(buffer_text))
        base  == (field_name :> DeltaText(to_yield))
                   @@ [f \in {"content", "reasoning_content"} |-> <<>>]
        delta == IF first THEN base @@ ("role" :> "assistant") ELSE base
    IN  IF held
        THEN [sse |-> None, remaining |-> buffer_text, is_first_chunk |-> first]
        ELSE IF Len(to_yield) > 0
        THEN [sse |-> CompletionChunk(id, delta, "null"),
              remaining |-> remaining, is_first_chunk |-> FALSE]
        ELSE [sse |-> None, remaining |-> remaining, is_first_chunk |-> first]

\* yield_from_buffer whose remainder starts at the last newline.
yield_from_buffer_from_newline(buffer_text, field_name, is_final, first, id) ==
    LET last_newline_idx == rfind(buffer_text)
        held     == ~is_final /\ last_newline_idx = -1
        to_yield == IF is_final THEN buffer_text
                    ELSE SubSeq(buffer_text, 1, last_newline_idx + 1)
        remaining == IF is_final THEN <<>>
                     ELSE SubSeq(buffer_text, last_newline_idx + 1, Len(buffer_text))
        delta == IF first
                 THEN (field_name :> DeltaText(to_yield)) @@ ("role" :> "assistant")
                 ELSE (field_name :> DeltaText(to_yield))
    IN  IF held
        THEN [sse |-> None, remaining |-> buffer_text, is_first_chunk |-> first]
        ELSE IF Len(to_yield) > 0
        THEN [sse |-> CompletionChunk(id, delta, "null"),
              remaining |-> remaining, is_first_chunk |-> FALSE]
        ELSE [sse |-> None, remaining |-> remaining, is_first_chunk |-> first]

\* One run of the generator: the pair it yields (sse, remaining) and the
\* value of the nonlocal is_first_chunk afterwards.
yield_from_buffer(buffer_text, field_name, is_final, first, id) ==
    LET last_newline_idx == rfind(buffer_text)
        held     == ~is_final /\ last_newline_idx = -1
        to_yield == IF is_final THEN buffer_text
                    ELSE SubSeq(buffer_text, 1, last_newline_idx + 1)
        remaining == IF is_final THEN <<>>
                     ELSE SubSeq(buffer_text, last_newline_idx + 2, Len(buffer_text))
        delta == IF first
                 THEN (field_name :> DeltaText(to_yield)) @@ ("role" :> "assistant")
                 ELSE (field_name :> DeltaText(to_yield))
    IN  IF held
        THEN [sse |-> None, remaining |-> buffer_text, is_first_chunk |-> first]
        ELSE IF Len(to_yield) > 0
        THEN [sse |-> CompletionChunk(id, delta, "null"),
              remaining |-> remaining, is_first_chunk |-> FALSE]
        ELSE [sse |-> None, remaining |-> remaining, is_first_chunk |-> first]

\* An emission that puts the new event in front of the earlier ones.
Emit_prepends(out_, sse) == IF sse = None THEN out_ ELSE <<sse>> \o out_

Emit(out_, sse) == IF sse = None THEN out_ ELSE Append(out_, sse)


\* ------------------------------------------------------------------ state
VARIABLES
    pc,               \* position of stream_response
    ignore_nodes,     \* the ignore_nodes argument
    response_id,      \* the id computed on entry
    events,           \* the feed items consumed so far, in order
    is_first_chunk,
    content_buffer,
    reasoning_buffer,
    out,              \* the SSE events yielded so far, in order
    ref,              \* the same formatter run on the feed without the
                      \* items of ignored nodes
    gnode,            \* the graph node about to run ("END" when the turn is over)
    intent,           \* AgentState.intent
    messages,         \* AgentState.messages
    visited,          \* the nodes run in this turn, in order
    user_profile,     \* AgentState.user_profile
    profile_complete, \* AgentState.profile_complete
    store,            \* the checkpointer: thread id -> persisted transcript
    anonymous,        \* the thread ids generated for requests without user
    graphs,           \* the keys of the _agent_graphs cache
    reply,            \* the last request handled and what was returned for it
    served            \* the number of requests handled

streamVars == <<pc, ignore_nodes, response_id, events, is_first_chunk,
                content_buffer, reasoning_buffer, out, ref>>
graphVars  == <<gnode, intent, messages, visited, user_profile, profile_complete>>
profileVars == <<user_profile, profile_complete>>
apiVars    == <<store, anonymous, graphs, reply, served>>
vars       == <<streamVars, graphVars, apiVars>>

\* ------------------------------------------------------- endpoint state
\* A thread id is a string: the user's value, or "anonymous-" followed by
\* the hex digits of a uuid.
AnonymousId(n) == <<"anonymous-", n>>
HexValues      == 1..MaxRequests
UserValues     == {<<>>, <<"alice">>, AnonymousId(1)}
ThreadIds      == (UserValues \ {<<>>}) \cup {AnonymousId(n) : n \in HexValues}
NoReply        == [status |-> 0, request |-> None, thread_id |-> <<>>, response |-> None]

\* No request has been handled: no checkpoint, no cached graph.
ApiIdle ==
    /\ store = [t \in ThreadIds |-> <<>>]
    /\ anonymous = {}
    /\ graphs = {}
    /\ reply = NoReply
    /\ served = 0

\* The formatter's local state as one value.
Locals(cb, rb, first, o) ==
    [content_buffer |-> cb, reasoning_buffer |-> rb, is_first_chunk |-> first, out |-> o]
Here == Locals(content_buffer, reasoning_buffer, is_first_chunk, out)

\* ------------------------------------------------- stream_response: loop
\* A node filter that lets every node through.
IsIgnored_never(item, ign) == FALSE

\* The node filter of the loop body.
IsIgnored(item, ign) == item.node \in ign

\* One iteration of the async-for body on a (chunk, metadata) pair.
LoopBody(st, item, ign, id) ==
    IF IsIgnored(item, ign) THEN st
    ELSE LET choice == parse_message_chunk(item.chunk) IN
         IF choice = None THEN st
         ELSE
           LET c  == FieldText(choice.delta, "content")
               y1 == yield_from_buffer(st.content_buffer \o c, "content", FALSE,
                                       st.is_first_chunk, id)
               s1 == IF Len(c) > 0
                     THEN Locals(y1.remaining, st.reasoning_buffer,
                                 y1.is_first_chunk, Emit(st.out, y1.sse))
                     ELSE st
               r  == FieldText(choice.delta, "reasoning_content")
               y2 == yield_from_buffer(s1.reasoning_buffer \o r, "reasoning_content",
                                       FALSE, s1.is_first_chunk, id)
           IN  IF Len(r) > 0
               THEN Locals(s1.content_buffer, y2.remaining,
                           y2.is_first_chunk, Emit(s1.out, y2.sse))
               ELSE s1

\* The flush of one buffer after the loop; the buffer variable itself is
\* not reassigned.
Flush(st, field_name, id) ==
    LET buf == IF field_name = "content" THEN st.content_buffer
               ELSE st.reasoning_buffer
        y   == yield_from_buffer(buf, field_name, TRUE, st.is_first_chunk, id)
    IN  IF Len(buf) > 0
        THEN Locals(st.content_buffer, st.reasoning_buffer,
                    y.is_first_chunk, Emit(st.out, y.sse))
        ELSE st

\* A closing chunk without the finish reason.
StopChunk_unfinished(id) == CompletionChunk(id, <<>>, "null")

\* The closing chunk: an empty delta and finish_reason "stop".
StopChunk(id) == CompletionChunk(id, <<>>, "stop")

SetLocals(st) ==
    /\ content_buffer'   = st.content_buffer
    /\ reasoning_buffer' = st.reasoning_buffer
    /\ is_first_chunk'   = st.is_first_chunk
    /\ out'              = st.out

\* The feed delivers a (chunk, metadata) pair.
ProcessEvent ==
    /\ pc = "stream"
    /\ Len(events) < MaxEvents
    /\ \E item \in FeedItems :
         /\ item.pair
         /\ events' = Append(events, item)
         /\ SetLocals(LoopBody(Here, item, ignore_nodes, response_id))
         /\ ref' = IF item.node \in ignore_nodes THEN ref
                   ELSE LoopBody(ref, item, {}, response_id)
    /\ UNCHANGED <<apiVars, pc, ignore_nodes, response_id, graphVars>>

\* The feed delivers an item whose payload is not a (chunk, metadata) pair:
\* the unpacking `chunk, node_info = payload` raises.
ProcessBadItem ==
    /\ pc = "stream"
    /\ Len(events) < MaxEvents
    /\ \E item \in FeedItems :
         /\ ~item.pair
         /\ events' = Append(events, item)
    /\ pc' = "error"
    /\ UNCHANGED <<apiVars, ignore_nodes, response_id, is_first_chunk, content_buffer,
                   reasoning_buffer, out, ref, graphVars>>

\* The feed is exhausted: the async-for ends.
EndOfFeed ==
    /\ pc = "stream"
    /\ pc' = "flush_content"
    /\ UNCHANGED <<apiVars, ignore_nodes, response_id, events, is_first_chunk,
                   content_buffer, reasoning_buffer, out, ref, graphVars>>

FlushContent ==
    /\ pc = "flush_content"
    /\ SetLocals(Flush(Here, "content", response_id))
    /\ ref' = Flush(ref, "content", response_id)
    /\ pc' = "flush_reasoning"
    /\ UNCHANGED <<apiVars, ignore_nodes, response_id, events, graphVars>>

FlushReasoning ==
    /\ pc = "flush_reasoning"
    /\ SetLocals(Flush(Here, "reasoning_content", response_id))
    /\ ref' = Flush(ref, "reasoning_content", response_id)
    /\ pc' = "stop"
    /\ UNCHANGED <<apiVars, ignore_nodes, response_id, events, graphVars>>

SendStop ==
    /\ pc = "stop"
    /\ out' = Append(out, StopChunk(response_id))
    /\ ref' = [ref EXCEPT !.out = Append(ref.out, StopChunk(response_id))]
    /\ pc' = "done"
    /\ UNCHANGED <<apiVars, ignore_nodes, response_id, events, is_first_chunk,
                   content_buffer, reasoning_buffer, graphVars>>

SendDone ==
    /\ pc = "done"
    /\ out' = Append(out, DoneEvent)
    /\ ref' = [ref EXCEPT !.out = Append(ref.out, DoneEvent)]
    /\ pc' = "finished"
    /\ UNCHANGED <<apiVars, ignore_nodes, response_id, events, is_first_chunk,
                   content_buffer, reasoning_buffer, graphVars>>

\* ------------------------------------------------------------ UserProfile
\* A profile is the mapping of its fields that are not None; financial_goals
\* is always present.
ProfileFields == {"age", "risk_tolerance", "time_horizon_years"}
EmptyProfile  == [financial_goals |-> <<>>]

\* is_complete that also asks for a goal.
is_complete_needs_goal(profile) ==
    /\ "age" \in DOMAIN profile
    /\ "risk_tolerance" \in DOMAIN profile
    /\ "time_horizon_years" \in DOMAIN profile
    /\ Len(profile.financial_goals) > 0

\* UserProfile.is_complete
is_complete(profile) ==
    /\ "age" \in DOMAIN profile
    /\ "risk_tolerance" \in DOMAIN profile
    /\ "time_horizon_years" \in DOMAIN profile

\* ------------------------------------------------- format_profile_summary
\* Python truth of the three optional fields: None and 0 are false; a risk
\* tolerance, one of three non-empty literals, is true whenever it is set.
HasAge(profile)     == "age" \in DOMAIN profile /\ profile.age # 0
HasRisk(profile)    == "risk_tolerance" \in DOMAIN profile
HasHorizon(profile) ==
    "time_horizon_years" \in DOMAIN profile /\ profile.time_horizon_years # 0

\* The labels of the fields the summary reports as missing, in order.
MissingLabels(profile) ==
    (IF HasAge(profile) THEN <<>> ELSE <<"age">>)
    \o (IF HasRisk(profile) THEN <<>> ELSE <<"risk tolerance">>)
    \o (IF HasHorizon(profile) THEN <<>> ELSE <<"time horizon">>)

\* The summary as its three components: the opening ("none" for the text
\* returned when no field is true, "profile" for the "User Profile:" list),
\* the fields listed, and the labels after "Missing information:" (empty
\* when that paragraph is not written).
format_profile_summary(profile) ==
    IF ~HasAge(profile) /\ ~HasRisk(profile) /\ ~HasHorizon(profile)
    THEN [opening |-> "none", parts |-> <<>>, missing |-> <<>>]
    ELSE [opening |-> "profile",
          parts   |-> (IF HasAge(profile) THEN <<"age">> ELSE <<>>)
                      \o (IF HasRisk(profile) THEN <<"risk_tolerance">> ELSE <<>>)
                      \o (IF HasHorizon(profile) THEN <<"time_horizon_years">> ELSE <<>>)
                      \o (IF Len(profile.financial_goals) > 0
                          THEN <<"financial_goals">> ELSE <<>>),
          missing |-> MissingLabels(profile)]

\* ------------------------------------------------ extract_profile_updates
\* The content of a user message is a sequence of tokens, the words and
\* numbers between its spaces.
Word(s) == [w |-> s]
Num(k)  == [n |-> k]
IsNum(t) == "n" \in DOMAIN t

\* str.lower() on the words that have an upper-case letter.
LowerCase == [x \in {"I'm", "I", "Conservative", "Risk", "Retire"} |->
                CASE x = "I'm" -> "i'm"
                  [] x = "I" -> "i"
                  [] x = "Conservative" -> "conservative"
                  [] x = "Risk" -> "risk"
                  [] x = "Retire" -> "retire"]
lower(c) == [i \in 1..Len(c) |->
               IF IsNum(c[i]) THEN c[i]
               ELSE IF c[i].w \in DOMAIN LowerCase THEN Word(LowerCase[c[i].w])
               ELSE c[i]]

IsWord(c, i, ws) == i \in 1..Len(c) /\ ~IsNum(c[i]) /\ c[i].w \in ws
IsNumAt(c, i)    == i \in 1..Len(c) /\ IsNum(c[i])
Min(S) == CHOOSE x \in S : \A y \in S : x <= y

RECURSIVE LeadingDigits(_)
\* What (\d{2,3}) captures at the start of a number: its first three digits.
LeadingDigits(k) == IF k < 1000 THEN k ELSE LeadingDigits(k \div 10)
\* What (\d{2,3}) captures when the pattern goes on after the number: its
\* last three digits.
TrailingDigits(k) == k % 1000

\* The words in which the substring "age" is followed by the end of the
\* word or a colon, and the words that contain a given keyword.
EndsWithAge == {"age", "age:", "mortgage"}
Containing(kw) == CASE kw = "risk" -> {"risk", "risky"}
                    [] kw = "moderate" -> {"moderate", "moderately"}
                    [] OTHER -> {kw}
Contains(c, kw) == \E i \in 1..Len(c) : IsWord(c, i, Containing(kw))
HasPhrase(c, ph) ==
    \E i \in 1..Len(c) : \A j \in 1..Len(ph) : IsWord(c, i + j - 1, {ph[j]})

\* The number captured by the first age pattern that matches the message,
\* as a sequence of zero or one element.
\*   1: i('m| am) (\d{2,3})    2: (\d{2,3}) years old    3: age[:\s]+(\d{2,3})
AgeMatch(c) ==
    LET p1 == {i \in 1..Len(c) :
                 /\ IsNumAt(c, i) /\ c[i].n >= 10
                 /\ \/ IsWord(c, i - 1, {"i'm"})
                    \/ IsWord(c, i - 2, {"i"}) /\ IsWord(c, i - 1, {"am"})}
        p2 == {i \in 1..Len(c) :
                 /\ IsNumAt(c, i) /\ c[i].n >= 10
                 /\ IsWord(c, i + 1, {"years"}) /\ IsWord(c, i + 2, {"old"})}
        p3 == {i \in 1..Len(c) :
                 /\ IsNumAt(c, i) /\ c[i].n >= 10
                 /\ IsWord(c, i - 1, EndsWithAge)}
    IN  IF p1 # {} THEN <<LeadingDigits(c[Min(p1)].n)>>
        ELSE IF p2 # {} THEN <<TrailingDigits(c[Min(p2)].n)>>
        ELSE IF p3 # {} THEN <<LeadingDigits(c[Min(p3)].n)>>
        ELSE <<>>

\* Age extraction that keeps any matched number.
AgeUpdate_unchecked(c) ==
    LET age_match == AgeMatch(c) IN
    IF Len(age_match) > 0 THEN [age |-> age_match[1]] ELSE <<>>

\* The age entry one message adds to updates: the matched number if it
\* passes the sanity check.
AgeUpdate(c) ==
    LET age_match == AgeMatch(c) IN
    IF Len(age_match) > 0 /\ 18 <= age_match[1] /\ age_match[1] <= 120
    THEN [age |-> age_match[1]]
    ELSE <<>>

\* Risk extraction that tests the aggressive keyword before the
\* conservative one.
RiskUpdate_aggressive_first(c) ==
    IF Contains(c, "aggressive") /\ Contains(c, "risk")
    THEN [risk_tolerance |-> "aggressive"]
    ELSE IF Contains(c, "conservative") /\ Contains(c, "risk")
    THEN [risk_tolerance |-> "conservative"]
    ELSE IF Contains(c, "moderate") /\ Contains(c, "risk")
    THEN [risk_tolerance |-> "moderate"]
    ELSE IF HasPhrase(c, <<"i", "prefer", "conservative">>) \/ HasPhrase(c, <<"low", "risk">>)
    THEN [risk_tolerance |-> "conservative"]
    ELSE IF HasPhrase(c, <<"i", "prefer", "aggressive">>) \/ HasPhrase(c, <<"high", "risk">>)
    THEN [risk_tolerance |-> "aggressive"]
    ELSE <<>>

\* The risk_tolerance entry one message adds to updates.
RiskUpdate(c) ==
    IF Contains(c, "conservative") /\ Contains(c, "risk")
    THEN [risk_tolerance |-> "conservative"]
    ELSE IF Contains(c, "aggressive") /\ Contains(c, "risk")
    THEN [risk_tolerance |-> "aggressive"]
    ELSE IF Contains(c, "moderate") /\ Contains(c, "risk")
    THEN [risk_tolerance |-> "moderate"]
    ELSE IF HasPhrase(c, <<"i", "prefer", "conservative">>) \/ HasPhrase(c, <<"low", "risk">>)
    THEN [risk_tolerance |-> "conservative"]
    ELSE IF HasPhrase(c, <<"i", "prefer", "aggressive">>) \/ HasPhrase(c, <<"high", "risk">>)
    THEN [risk_tolerance |-> "aggressive"]
    ELSE <<>>

\* The time_horizon_years entry one message adds to updates: the number of
\* the first horizon pattern that matches.
\*   1: (\d+) years? (time )?horizon     2: horizon (of )?(\d+) years?
\*   3: invest(ing)? for (\d+) years?    4: retire in (\d+) years?
HorizonUpdate(c) ==
    LET yr == {"year", "years"}
        h1 == {i \in 1..Len(c) :
                 /\ IsNumAt(c, i) /\ IsWord(c, i + 1, yr)
                 /\ \/ IsWord(c, i + 2, {"horizon"})
                    \/ IsWord(c, i + 2, {"time"}) /\ IsWord(c, i + 3, {"horizon"})}
        h2 == {i \in 1..Len(c) :
                 /\ IsNumAt(c, i) /\ IsWord(c, i + 1, yr)
                 /\ \/ IsWord(c, i - 1, {"horizon"})
                    \/ IsWord(c, i - 2, {"horizon"}) /\ IsWord(c, i - 1, {"of"})}
        h3 == {i \in 1..Len(c) :
                 /\ IsNumAt(c, i) /\ IsWord(c, i + 1, yr)
                 /\ IsWord(c, i - 2, {"invest", "investing"}) /\ IsWord(c, i - 1, {"for"})}
        h4 == {i \in 1..Len(c) :
                 /\ IsNumAt(c, i) /\ IsWord(c, i + 1, yr)
                 /\ IsWord(c, i - 2, {"retire"}) /\ IsWord(c, i - 1, {"in"})}
    IN  IF h1 # {} THEN [time_horizon_years |-> c[Min(h1)].n]
        ELSE IF h2 # {} THEN [time_horizon_years |-> c[Min(h2)].n]
        ELSE IF h3 # {} THEN [time_horizon_years |-> c[Min(h3)].n]
        ELSE IF h4 # {} THEN [time_horizon_years |-> c[Min(h4)].n]
        ELSE <<>>

\* isinstance(msg, HumanMessage) that holds of every message.
IsHumanMessage_any_class(msg) == TRUE
\* isinstance(msg, HumanMessage).
IsHumanMessage(msg) == msg.role = "user"

\* Assignment that leaves a key alone once it is in the dict.
SetItems_keeps_earlier(updates, entries) == updates @@ entries
\* updates[key] = value for the entries one message yields: a key already
\* in the dict gets the new value.
SetItems(updates, entries) == entries @@ updates

RECURSIVE extract_profile_updates(_)
\* The loop over the messages: a message that is no HumanMessage is skipped,
\* and an entry written for a later message replaces an earlier one.
extract_profile_updates(msgs) ==
    IF Len(msgs) = 0 THEN <<>>
    ELSE LET updates == extract_profile_updates(SubSeq(msgs, 1, Len(msgs) - 1))
             msg     == msgs[Len(msgs)]
         IN  IF ~IsHumanMessage(msg) THEN updates
             ELSE LET content == lower(msg.content) IN
                  SetItems(SetItems(SetItems(updates, AgeUpdate(content)),
                                    RiskUpdate(content)),
                           HorizonUpdate(content))

\* check_profile_node that builds the profile from the updates alone.
check_profile_node_replaces(profile0, msgs) ==
    LET updates == extract_profile_updates(msgs)
        profile == IF DOMAIN updates # {} THEN updates @@ EmptyProfile ELSE profile0
    IN  [profile_complete |-> is_complete(profile), user_profile |-> profile]

\* check_profile_node: the state update it returns.
check_profile_node(profile0, msgs) ==
    LET updates == extract_profile_updates(msgs)
        profile == IF DOMAIN updates # {} THEN updates @@ profile0 ELSE profile0
    IN  [profile_complete |-> is_complete(profile), user_profile |-> profile]

\* ------------------------------------------------------------ agent graph
\* Messages of the transcript.
HumanMessage(c)  == [role |-> "user", content |-> c, tool_calls |-> 0]
AIMessage(n, k)  == [role |-> "assistant", content |-> n, tool_calls |-> k]
ToolMessage(st)  == [role |-> "tool", content |-> st, tool_calls |-> 0]
UserTexts        == {"hello", "advice"}
Requests == UNION {[1..n -> {HumanMessage(c) : c \in UserTexts}] : n \in 0..MaxMessages}

\* The values the router may leave in state["intent"]: the two intents, no
\* intent, and a value that is neither.
IntentValues == {"small_talk", "main_agent", "absent", "other"}

should_advice_default_agent(i) ==
    IF i = "absent" THEN "end"
    ELSE IF i = "small_talk" THEN "smalltalk"
    ELSE "agent"

\* The conditional edge out of the router.
should_advice(i) ==
    IF i = "absent" THEN "end"
    ELSE IF i = "small_talk" THEN "smalltalk"
    ELSE IF i = "main_agent" THEN "agent"
    ELSE "end"

\* A path map that sends the "end" decision to the smalltalk node.
RouterPaths_end_to_smalltalk == [smalltalk |-> "smalltalk", agent |-> "agent", end |-> "smalltalk"]

\* The path map of add_conditional_edges("router", should_advice, ...).
RouterPaths == [smalltalk |-> "smalltalk", agent |-> "agent", end |-> "END"]

\* should_use_tools that asks only whether the last message can carry tool
\* calls, not whether it has any.
should_use_tools_hasattr_only(msgs) ==
    IF Len(msgs) = 0 THEN "end"
    ELSE IF msgs[Len(msgs)].role = "assistant" THEN "tools"
    ELSE "end"

\* The conditional edge out of the agent.
should_use_tools(msgs) ==
    IF Len(msgs) = 0 THEN "end"
    ELSE IF msgs[Len(msgs)].tool_calls > 0 THEN "tools"
    ELSE "end"

\* A path map that sends the "end" decision back to the router.
AgentPaths_end_to_router == [tools |-> "tools", end |-> "router"]

\* The path map of add_conditional_edges("agent", should_use_tools, ...).
AgentPaths == [tools |-> "tools", end |-> "END"]

\* Edges with the tools node wired to the end.
Edges_tools_to_end == [smalltalk |-> "END", check_profile |-> "agent", tools |-> "END"]

\* Edges with the smalltalk node wired to the agent.
Edges_smalltalk_to_agent == [smalltalk |-> "agent", check_profile |-> "agent", tools |-> "agent"]

\* The unconditional edges: add_edge(source, target).
Edges == [smalltalk |-> "END", check_profile |-> "agent", tools |-> "agent"]

Rounds == Cardinality({i \in 1..Len(visited) : visited[i] = "agent"})

\* The router node classifies the turn and stores the intent.
RouterNode ==
    /\ gnode = "router"
    /\ \E i \in IntentValues :
         /\ intent' = i
         /\ gnode' = RouterPaths[should_advice(i)]
    /\ visited' = Append(visited, "router")
    /\ UNCHANGED <<apiVars, messages, profileVars, streamVars>>

\* The smalltalk node appends one answer of the simple model.
SmalltalkNode ==
    /\ gnode = "smalltalk"
    /\ messages' = Append(messages, AIMessage("smalltalk", 0))
    /\ gnode' = Edges["smalltalk"]
    /\ visited' = Append(visited, "smalltalk")
    /\ UNCHANGED <<apiVars, intent, profileVars, streamVars>>

\* The system message of one agent step, and the list handed to the model:
\* that message followed by the transcript.
SystemMessage(c) == [role |-> "system", content |-> c, tool_calls |-> 0]
llm_messages(profile, msgs) ==
    <<SystemMessage(format_profile_summary(profile))>> \o msgs

\* An agent node that returns the system message along with the response.
agent_node_returns_prompt(profile, msgs, response) ==
    <<llm_messages(profile, msgs)[1], response>>
\* The "messages" entry agent_node returns for the model's response to
\* llm_messages(profile, msgs).
agent_node(profile, msgs, response) == <<response>>

\* An agent node whose returned message list replaces the transcript.
AgentNode_overwrites ==
    /\ gnode = "agent"
    /\ Rounds < MaxRounds
    /\ \E k \in 0..MaxToolCalls :
         LET after == <<AIMessage("agent", k)>> IN
         /\ messages' = after
         /\ gnode' = AgentPaths[should_use_tools(after)]
    /\ visited' = Append(visited, "agent")
    /\ UNCHANGED <<apiVars, intent, profileVars, streamVars>>

\* The agent node appends the model's response, which may request tools.
AgentNode ==
    /\ gnode = "agent"
    /\ Rounds < MaxRounds
    /\ \E k \in 0..MaxToolCalls :
         LET after == messages \o agent_node(user_profile, messages,
                                             AIMessage("agent", k)) IN
         /\ messages' = after
         /\ gnode' = AgentPaths[should_use_tools(after)]
    /\ visited' = Append(visited, "agent")
    /\ UNCHANGED <<apiVars, intent, profileVars, streamVars>>

\* The tool node appends one tool message per requested call; a tool that
\* fails yields a message carrying the error.
ToolsNode ==
    /\ gnode = "tools"
    /\ \E results \in [1..messages[Len(messages)].tool_calls -> {"ok", "error"}] :
         messages' = messages \o [j \in DOMAIN results |-> ToolMessage(results[j])]
    /\ gnode' = Edges["tools"]
    /\ visited' = Append(visited, "tools")
    /\ UNCHANGED <<apiVars, intent, profileVars, streamVars>>

\* A tool raises an exception that the tool node does not turn into a tool
\* message (calculate_compound_growth has no handler of its own): the graph
\* run ends with that exception.
ToolsNodeRaises ==
    /\ gnode = "tools"
    /\ gnode' = "ABORT"
    /\ visited' = Append(visited, "tools")
    /\ UNCHANGED <<apiVars, messages, intent, profileVars, streamVars>>

StreamIdle ==
    /\ pc = "idle"
    /\ ignore_nodes = {}
    /\ response_id = ResponseId
    /\ events = <<>>
    /\ is_first_chunk = TRUE
    /\ content_buffer = <<>>
    /\ reasoning_buffer = <<>>
    /\ out = <<>>
    /\ ref = Locals(<<>>, <<>>, TRUE, <<>>)

GraphInit ==
    /\ ApiIdle
    /\ gnode = "router"
    /\ intent = "unset"
    /\ messages \in Requests
    /\ visited = <<>>
    /\ user_profile = EmptyProfile
    /\ profile_complete = FALSE
    /\ StreamIdle

GraphNext ==
    \/ RouterNode
    \/ SmalltalkNode
    \/ AgentNode
    \/ ToolsNode
    \/ ToolsNodeRaises

GraphSpec == GraphInit /\ [][GraphNext]_vars


\* ------------------------------------------------------------ profile check
\* What users write, and one reply of the assistant that reads like a user's
\* statement of age.
UserContents ==
    { <<Word("hello")>>,
      <<Word("I'm"), Num(35), Word("years"), Word("old")>>,
      <<Word("I"), Word("am"), Num(200)>>,
      <<Word("I"), Word("am"), Num(200), Word("and"), Num(35), Word("years"), Word("old")>>,
      <<Word("age:"), Num(42)>>,
      <<Num(1034), Word("years"), Word("old")>>,
      <<Word("Conservative"), Word("Risk")>>,
      <<Word("aggressive"), Word("risk"), Word("conservative")>>,
      <<Word("moderately"), Word("risky")>>,
      <<Word("Retire"), Word("in"), Num(25), Word("years")>>,
      <<Num(10), Word("year"), Word("time"), Word("horizon")>>,
      <<Word("horizon"), Word("of"), Num(0), Word("years")>>,
      <<Word("I'm"), Num(30), Word("low"), Word("risk"),
        Word("retire"), Word("in"), Num(20), Word("years")>> }
AssistantContent == <<Word("I"), Word("am"), Num(99)>>
ThreadMessages ==
    {HumanMessage(c) : c \in UserContents} \cup {AIMessage(AssistantContent, 0)}

\* The profiles a thread can hold when a message arrives: the one of
\* get_initial_state and profiles earlier checks have stored.
StoredProfiles ==
    { EmptyProfile,
      [financial_goals |-> <<"retirement">>, age |-> 50] }

\* A message is appended to the thread's transcript.
ReceiveMessage ==
    /\ gnode = "check_profile"
    /\ Len(messages) < MaxMessages
    /\ \E msg \in ThreadMessages : messages' = Append(messages, msg)
    /\ UNCHANGED <<apiVars, gnode, intent, visited, profileVars, streamVars>>

\* The check_profile node runs on the thread's state.
CheckProfile ==
    /\ gnode = "check_profile"
    /\ Len(visited) < MaxRounds
    /\ LET update == check_profile_node(user_profile, messages) IN
         /\ user_profile' = update.user_profile
         /\ profile_complete' = update.profile_complete
    /\ visited' = Append(visited, "check_profile")
    /\ UNCHANGED <<apiVars, gnode, intent, messages, streamVars>>

ProfileInit ==
    /\ ApiIdle
    /\ gnode = "check_profile"
    /\ intent = "main_agent"
    /\ messages = <<>>
    /\ visited = <<>>
    /\ user_profile \in StoredProfiles
    /\ profile_complete = is_complete(user_profile)
    /\ StreamIdle

ProfileNext ==
    \/ ReceiveMessage
    \/ CheckProfile

ProfileSpec == ProfileInit /\ [][ProfileNext]_vars

\* ---------------------------------------------------------- specifications
GraphIdle ==
    /\ gnode = "END"
    /\ intent = "unset"
    /\ messages = <<>>
    /\ visited = <<>>
    /\ user_profile = EmptyProfile
    /\ profile_complete = FALSE

Init ==
    /\ ApiIdle
    /\ pc = "stream"
    /\ ignore_nodes \in IgnoreSets
    /\ response_id = ResponseId
    /\ events = <<>>
    /\ is_first_chunk = TRUE
    /\ content_buffer = <<>>
    /\ reasoning_buffer = <<>>
    /\ out = <<>>
    /\ ref = Locals(<<>>, <<>>, TRUE, <<>>)
    /\ GraphIdle

Next ==
    \/ ProcessEvent
    \/ ProcessBadItem
    \/ EndOfFeed
    \/ FlushContent
    \/ FlushReasoning
    \/ SendStop
    \/ SendDone

Spec == Init /\ [][Next]_vars

\* ------------------------------------------------------ chat_completions
\* A request body with its bearer token.  The temperature is in tenths; the
\* user field is present only when the client set it.
ChatMessage(role, content) == [role |-> role, content |-> content]
StrContent(t)     == [ctype |-> "str", text |-> t]
ListContent(bs)   == [ctype |-> "list", blocks |-> bs]
ValidRoles        == {"system", "user", "assistant"}
Temperatures      == {0, 20, 21}
RequestMessages ==
    { <<>>,
      <<ChatMessage("system", <<"s">>), ChatMessage("user", <<"h">>),
        ChatMessage("assistant", <<"a">>), ChatMessage("user", <<"g">>)>>,
      <<ChatMessage("tool", <<"h">>)>> }
ChatRequests ==
    LET base == [token : {"valid", "invalid"}, temperature : Temperatures,
                 stream : BOOLEAN, messages : RequestMessages]
    IN  base \cup {b @@ [user |-> u] : b \in base, u \in UserValues}

\* A schema check that does not look at the temperature.
SchemaValid_no_range(r) ==
    \A i \in 1..Len(r.messages) : r.messages[i].role \in ValidRoles

\* Validation of the body against ChatCompletionRequest.
SchemaValid(r) ==
    /\ r.temperature >= 0 /\ r.temperature <= 20
    /\ \A i \in 1..Len(r.messages) : r.messages[i].role \in ValidRoles

\* verify_token: the bearer token is the configured one.
verify_token(r) == r.token = "valid"

\* The status of the rejection: the dependency raises first.
RejectStatus(r) == IF ~verify_token(r) THEN 401 ELSE 422

RECURSIVE lc_messages(_)
\* A conversion loop that turns every message into a HumanMessage.
lc_messages_all_roles(ms) ==
    [i \in 1..Len(ms) |-> HumanMessage(StrContent(ms[i].content))]
\* The conversion loop: only user messages are kept.
lc_messages(ms) ==
    IF Len(ms) = 0 THEN <<>>
    ELSE (IF ms[1].role = "user"
          THEN <<HumanMessage(StrContent(ms[1].content))>> ELSE <<>>)
         \o lc_messages(Tail(ms))

\* request.user or a generated id.
HasUser(r)      == "user" \in DOMAIN r /\ Len(r.user) > 0
ThreadIdsFor(r) ==
    IF HasUser(r) THEN {r.user}
    ELSE {AnonymousId(n) : n \in HexValues} \ anonymous

\* The transcripts a turn of the graph can leave for a transcript t: t
\* itself when the router gives no valid intent, or t with the answer of
\* smalltalk or of the agent, whose content is a list of blocks or a string.
Answers ==
    { AIMessage(ListContent(<<ThinkingBlock(<<"a">>), TextBlock(<<"a">>)>>), 0),
      AIMessage(StrContent(<<"a">>), 0) }
TurnResults(t) == {t} \cup {Append(t, ai) : ai \in Answers}

\* final_message.content[-1]["text"]: defined for a list whose last block
\* has a text; it raises for a string.
HasFinalText(result) ==
    Len(result) = 0
    \/ (LET c == result[Len(result)].content IN
         c.ctype = "list" /\ Len(c.blocks) > 0
            /\ c.blocks[Len(c.blocks)].type = "text")
FinalText(result) ==
    IF Len(result) = 0 THEN <<>>
    ELSE LET c == result[Len(result)].content IN c.blocks[Len(c.blocks)].text

\* ChatCompletionChoice(**kwargs): the model has the fields index, delta
\* and finish_reason; a keyword that is no field is ignored.
ChatCompletionChoice(kwargs) ==
    [f \in {"index", "delta", "finish_reason"} |->
        IF f \in DOMAIN kwargs THEN kwargs[f]
        ELSE IF f = "index" THEN 0 ELSE None]

ChatCompletionResponse(content) ==
    [object |-> "chat.completion",
     choices |-> <<ChatCompletionChoice(
                     [index |-> 0,
                      message |-> ChatMessage("assistant", content),
                      finish_reason |-> "stop"])>>]

\* A request that fails validation or authentication never reaches the
\* handler body.
Rejected ==
    /\ served < MaxRequests
    /\ \E r \in ChatRequests :
         /\ ~(verify_token(r) /\ SchemaValid(r))
         /\ reply' = [status |-> RejectStatus(r), request |-> r,
                      thread_id |-> <<>>, response |-> None]
    /\ served' = served + 1
    /\ UNCHANGED <<store, anonymous, graphs, streamVars, graphVars>>

\* The handler body for stream = false.
NonStreaming ==
    /\ served < MaxRequests
    /\ \E r \in ChatRequests :
         /\ verify_token(r) /\ SchemaValid(r)
         /\ ~r.stream
         /\ \E tid \in ThreadIdsFor(r) :
            \E result \in TurnResults(store[tid] \o lc_messages(r.messages)) :
              /\ graphs' = graphs \cup {r.temperature}
              /\ anonymous' = IF HasUser(r) THEN anonymous ELSE anonymous \cup {tid}
              /\ store' = [store EXCEPT ![tid] = result]
              /\ reply' = IF HasFinalText(result)
                          THEN [status |-> 200, request |-> r, thread_id |-> tid,
                                response |-> ChatCompletionResponse(FinalText(result))]
                          ELSE [status |-> 500, request |-> r, thread_id |-> tid,
                                response |-> None]
    /\ served' = served + 1
    /\ UNCHANGED <<streamVars, graphVars>>

\* The handler body for stream = true: the turn runs as the body of the
\* response is sent.
Streaming ==
    /\ served < MaxRequests
    /\ \E r \in ChatRequests :
         /\ verify_token(r) /\ SchemaValid(r)
         /\ r.stream
         /\ \E tid \in ThreadIdsFor(r) :
            \E result \in TurnResults(store[tid] \o lc_messages(r.messages)) :
              /\ graphs' = graphs \cup {r.temperature}
              /\ anonymous' = IF HasUser(r) THEN anonymous ELSE anonymous \cup {tid}
              /\ store' = [store EXCEPT ![tid] = result]
              /\ reply' = [status |-> 200, request |-> r, thread_id |-> tid,
                           response |-> [object |-> "text/event-stream"]]
    /\ served' = served + 1
    /\ UNCHANGED <<streamVars, graphVars>>

ApiInit ==
    /\ ApiIdle
    /\ StreamIdle
    /\ GraphIdle

ApiNext ==
    \/ Rejected
    \/ NonStreaming
    \/ Streaming

ApiSpec == ApiInit /\ [][ApiNext]_vars

\* ------------------------------------------- cancellation and failure
\* The points at which the generator is suspended: awaiting the next item
\* of the feed, or at a yield whose event the consumer has received.
AtSuspension ==
    \/ pc = "stream"
    \/ pc = "flush_reasoning" /\ Len(content_buffer) > 0
    \/ pc = "stop" /\ Len(reasoning_buffer) > 0
    \/ pc = "done"

\* A cancellation that still sends the terminator.
Cancel_sends_done ==
    /\ AtSuspension
    /\ pc' = "cancelled"
    /\ out' = Append(out, DoneEvent)
    /\ UNCHANGED <<apiVars, ignore_nodes, response_id, events, is_first_chunk,
                   content_buffer, reasoning_buffer, ref, graphVars>>

\* The consumer is cancelled (client disconnect): the exception is thrown
\* into the generator at its suspension point; stream_response has no
\* handler and no finally block, so the generator ends there.
Cancel ==
    /\ AtSuspension
    /\ pc' = "cancelled"
    /\ UNCHANGED <<apiVars, ignore_nodes, response_id, events, is_first_chunk,
                   content_buffer, reasoning_buffer, out, ref, graphVars>>

\* The model call inside the graph raises while the feed is awaited: the
\* exception leaves graph.astream and, unhandled, stream_response.
ModelFails ==
    /\ pc = "stream"
    /\ pc' = "failed"
    /\ UNCHANGED <<apiVars, ignore_nodes, response_id, events, is_first_chunk,
                   content_buffer, reasoning_buffer, out, ref, graphVars>>

FaultInit ==
    /\ ApiIdle
    /\ pc = "stream"
    /\ ignore_nodes = {}
    /\ response_id = ResponseId
    /\ events = <<>>
    /\ is_first_chunk = TRUE
    /\ content_buffer = <<>>
    /\ reasoning_buffer = <<>>
    /\ out = <<>>
    /\ ref = Locals(<<>>, <<>>, TRUE, <<>>)
    /\ GraphIdle

FaultNext ==
    \/ ProcessEvent
    \/ ProcessBadItem
    \/ EndOfFeed
    \/ FlushContent
    \/ FlushReasoning
    \/ SendStop
    \/ SendDone
    \/ Cancel
    \/ ModelFails

FaultSpec == FaultInit /\ [][FaultNext]_vars

\* --------------------------------------------------- one streaming turn
\* stream_response driving the graph: the feed it consumes is what the nodes
\* of the running graph stream, each item tagged with its node.
StreamingNodes == {"router", "smalltalk", "agent"}

\* What a node's model call streams: a line of text that is emitted at
\* once, or reasoning without a newline that is held until the flush.
TurnChunks == {AIMessageChunk("list", <<TextBlock(<<"a", NL>>)>>),
               AIMessageChunk("list", <<ThinkingBlock(<<"a">>)>>)}

\* The node that is running streams a chunk of its model's output, and the
\* loop body of stream_response handles it.
NodeStreams ==
    /\ pc = "stream"
    /\ gnode \in StreamingNodes
    /\ Len(events) < MaxEvents
    /\ \E c \in TurnChunks :
         LET item == MessagesItem(c, gnode) IN
         /\ events' = Append(events, item)
         /\ SetLocals(LoopBody(Here, item, ignore_nodes, response_id))
         /\ ref' = IF item.node \in ignore_nodes THEN ref
                   ELSE LoopBody(ref, item, {}, response_id)
    /\ UNCHANGED <<apiVars, pc, ignore_nodes, response_id, graphVars>>

\* An end of the feed that is taken only when no text is held in a buffer.
TurnEndOfFeed_waits ==
    /\ gnode = "END"
    /\ content_buffer = <<>>
    /\ reasoning_buffer = <<>>
    /\ EndOfFeed

\* The graph has reached END: its feed is exhausted and the async-for ends.
TurnEndOfFeed ==
    /\ gnode = "END"
    /\ EndOfFeed

TurnInit ==
    /\ ApiIdle
    /\ gnode = "router"
    /\ intent = "unset"
    /\ messages = <<HumanMessage("advice")>>
    /\ visited = <<>>
    /\ user_profile = EmptyProfile
    /\ profile_complete = FALSE
    /\ pc = "stream"
    /\ ignore_nodes \in IgnoreSets
    /\ response_id = ResponseId
    /\ events = <<>>
    /\ is_first_chunk = TRUE
    /\ content_buffer = <<>>
    /\ reasoning_buffer = <<>>
    /\ out = <<>>
    /\ ref = Locals(<<>>, <<>>, TRUE, <<>>)

TurnNext ==
    \/ NodeStreams
    \/ RouterNode
    \/ SmalltalkNode
    \/ AgentNode
    \/ ToolsNode
    \/ ToolsNodeRaises
    \/ TurnEndOfFeed
    \/ FlushContent
    \/ FlushReasoning
    \/ SendStop
    \/ SendDone

TurnSpec == TurnInit /\ [][TurnNext]_vars

\* The turn with the consumer pulling until the generator returns: once the
\* feed is exhausted the code after the loop runs to its end without
\* awaiting anything.
TurnFairness ==
    /\ WF_vars(TurnEndOfFeed)
    /\ WF_vars(FlushContent)
    /\ WF_vars(FlushReasoning)
    /\ WF_vars(SendStop)
    /\ WF_vars(SendDone)

\* The turn as the endpoint starts it: no ignore set is passed.
TurnLiveInit == TurnInit /\ ignore_nodes = {}

TurnLiveSpec == TurnLiveInit /\ [][TurnNext]_vars /\ TurnFairness

\* ============================================================== properties
\* Reading the emitted sequence.
IsChunk(e)   == e.type = "chunk"
IsDone(e)    == e.type = "DONE"
Delta(e)     == e.choices[1].delta
IsStop(e)    == IsChunk(e) /\ e.choices[1].finish_reason = "stop"
IsData(e)    == IsChunk(e) /\ ~IsStop(e)
HasRole(e)   == IsChunk(e) /\ "role" \in DOMAIN Delta(e)
Carries(e, f) == IsChunk(e) /\ f \in DOMAIN Delta(e)
HasText(e)   == \E f \in Fields : Carries(e, f) /\ Len(Delta(e)[f]) > 0
Buffer(f)    == IF f = "content" THEN content_buffer ELSE reasoning_buffer

RECURSIVE FieldDeltas(_, _)
\* The deltas of field f in the emitted sequence o, concatenated in order.
FieldDeltas(o, f) ==
    IF Len(o) = 0 THEN <<>>
    ELSE (IF Carries(o[1], f) THEN Delta(o[1])[f] ELSE <<>>) \o FieldDeltas(Tail(o), f)

\* The text fragment a feed item delivers for field f: the text of its text
\* block (content) or thinking block (reasoning_content).
Fragment(item, f) ==
    IF item.pair /\ item.chunk.cls = "AIMessageChunk" /\ item.chunk.ctype = "list"
       /\ Len(item.chunk.content) > 0
    THEN LET b == item.chunk.content[1] IN
         IF f = "content" /\ b.type = "text" THEN b.text
         ELSE IF f = "reasoning_content" /\ b.type = "thinking" THEN b.thinking
         ELSE <<>>
    ELSE <<>>

RECURSIVE NormalizedInput(_, _, _)
\* The newline-normalized fragments of field f from non-ignored nodes,
\* concatenated in arrival order.
NormalizedInput(evs, f, ign) ==
    IF Len(evs) = 0 THEN <<>>
    ELSE (IF evs[1].pair /\ evs[1].node \notin ign
          THEN NormalizeNewlines(Fragment(evs[1], f)) ELSE <<>>)
         \o NormalizedInput(Tail(evs), f, ign)

HasNewline(s)  == \E i \in 1..Len(s) : s[i] = NL
LastNewline(s) == CHOOSE i \in 1..Len(s) : s[i] = NL /\ \A j \in (i+1)..Len(s) : s[j] # NL
ThroughLastNewline(s) == SubSeq(s, 1, LastNewline(s))
AfterLastNewline(s)   == SubSeq(s, LastNewline(s) + 1, Len(s))

\* The text the loop body appends to the buffer of field f for a feed item.
Appended(item, f) ==
    IF item.pair /\ ~(item.node \in ignore_nodes)
       /\ parse_message_chunk(item.chunk) # None
    THEN FieldText(parse_message_chunk(item.chunk).delta, f)
    ELSE <<>>

\* C1: when the turn has finished, for each field the deltas emitted for it,
\* concatenated in emission order (final flush included), are exactly the
\* newline-normalized input fragments of that field from non-ignored nodes,
\* concatenated in arrival order: nothing lost, nothing added.
C1_DeltasReconstructInput ==
    pc = "finished" =>
        \A f \in Fields : FieldDeltas(out, f) = NormalizedInput(events, f, ignore_nodes)

\* C2: every chunk emitted before the feed has ended carries a delta text
\* whose last character is a newline.
C2_NonFinalEndsWithNewline ==
    pc = "stream" =>
        \A i \in 1..Len(out) : \A f \in Fields :
            Carries(out[i], f) =>
                /\ Len(Delta(out[i])[f]) > 0
                /\ Delta(out[i])[f][Len(Delta(out[i])[f])] = NL

\* C3: the role marker "assistant" is on exactly one chunk of the turn, the
\* first chunk with non-empty delta text whichever field it carries; no
\* other chunk (the stop chunk included) has it, and when no chunk with
\* text has been emitted no chunk has it.
C3_SingleRoleMarker ==
    LET texted == {i \in 1..Len(out) : HasText(out[i])}
        marked == {i \in 1..Len(out) : HasRole(out[i])}
    IN  /\ \A i \in marked : Delta(out[i]).role = "assistant"
        /\ marked = {i \in texted : \A j \in texted : i <= j}

C3_Witness ==
    /\ pc = "finished"
    /\ Len(out) >= 4
    /\ HasRole(out[1]) /\ Carries(out[1], "reasoning_content")
    /\ Carries(out[2], "content") /\ ~HasRole(out[2])

\* C4: with an ignore set, the formatter's output and buffers are at every
\* point those of the run on the same feed with the ignored nodes' items
\* removed.
C4_IgnoredNodesInvisible ==
    /\ out = ref.out
    /\ content_buffer = ref.content_buffer
    /\ reasoning_buffer = ref.reasoning_buffer
    /\ is_first_chunk = ref.is_first_chunk

C4_Witness ==
    /\ pc = "finished"
    /\ ignore_nodes = {"router"}
    /\ Len(events) = 2
    /\ events[1].node = "router" /\ events[2].node = "agent"
    /\ Fragment(events[1], "content") = <<"a", NL>>
    /\ Fragment(events[2], "content") = <<"a">>
    /\ Len(out) = 3
    /\ Carries(out[1], "content")

\* C5: a finished turn's output ends with one stop chunk (finish_reason
\* "stop", empty delta) directly followed by [DONE] as the last event; before
\* them there are only content and reasoning chunks, and until the stop
\* chunk is sent neither of the two occurs.
C5_StopThenDone ==
    LET n == Len(out) IN
    /\ pc \in {"stream", "flush_content", "flush_reasoning", "stop", "error"} =>
           \A i \in 1..n : IsData(out[i])
    /\ pc = "done" =>
           /\ n >= 1 /\ IsStop(out[n]) /\ DOMAIN Delta(out[n]) = {}
           /\ \A i \in 1..(n-1) : IsData(out[i])
    /\ pc = "finished" =>
           /\ n >= 2 /\ IsDone(out[n])
           /\ IsStop(out[n-1]) /\ DOMAIN Delta(out[n-1]) = {}
           /\ \A i \in 1..(n-2) : IsData(out[i])

C5_Witness ==
    /\ pc = "finished"
    /\ Len(out) = 4
    /\ IsData(out[1]) /\ IsData(out[2]) /\ IsStop(out[3]) /\ IsDone(out[4])

\* C6: when the loop appends a fragment to a field's buffer, then if the
\* buffer now holds a newline exactly one chunk is emitted, for that field,
\* with the buffer up to and including its last newline as delta, and the
\* rest stays as the buffer; if it holds no newline nothing is emitted and
\* the buffer keeps the appended text.
C6_FlushAtLastNewline ==
    [][ (pc = "stream" /\ Len(events') = Len(events) + 1) =>
          LET item == events'[Len(events')] IN
          \A f \in Fields :
            LET b == Buffer(f) \o Appended(item, f) IN
            Len(Appended(item, f)) > 0 =>
              IF HasNewline(b)
              THEN /\ Len(out') = Len(out) + 1
                   /\ SubSeq(out', 1, Len(out)) = out
                   /\ Carries(out'[Len(out')], f)
                   /\ Delta(out'[Len(out')])[f] = ThroughLastNewline(b)
                   /\ Buffer(f)' = AfterLastNewline(b)
              ELSE /\ out' = out
                   /\ Buffer(f)' = b
      ]_vars

\* C7: at the end of the feed each buffer that holds text is emitted whole
\* as one chunk of its field although it has no newline, an empty buffer
\* yields no chunk, and the stop chunk is not sent before both flushes.
C7_FinalFlush ==
    [][ /\ pc = "flush_content" =>
            IF Len(content_buffer) > 0
            THEN /\ Len(out') = Len(out) + 1
                 /\ SubSeq(out', 1, Len(out)) = out
                 /\ Carries(out'[Len(out')], "content")
                 /\ Delta(out'[Len(out')]).content = content_buffer
            ELSE out' = out
        /\ pc = "flush_reasoning" =>
            IF Len(reasoning_buffer) > 0
            THEN /\ Len(out') = Len(out) + 1
                 /\ SubSeq(out', 1, Len(out)) = out
                 /\ Carries(out'[Len(out')], "reasoning_content")
                 /\ Delta(out'[Len(out')]).reasoning_content = reasoning_buffer
            ELSE out' = out
        /\ pc \in {"flush_content", "flush_reasoning"} =>
            \A i \in 1..Len(out) : ~IsStop(out[i])
      ]_vars

\* C8: all chunks of a turn carry one id, and every chunk but the stop chunk
\* has a delta in which exactly one of content and reasoning_content is set.
C8_OneIdOneField ==
    \A i \in 1..Len(out) :
        IsChunk(out[i]) =>
            /\ \A j \in 1..Len(out) : IsChunk(out[j]) => out[j].id = out[i].id
            /\ out[i].object = "chat.completion.chunk"
            /\ Len(out[i].choices) = 1
            /\ ~IsStop(out[i]) => Cardinality(DOMAIN Delta(out[i]) \cap Fields) = 1

C8_Witness ==
    /\ pc = "finished"
    /\ Len(out) = 5
    /\ Carries(out[1], "content") /\ Carries(out[2], "reasoning_content")
    /\ Carries(out[3], "content") /\ IsStop(out[4])

\* C9: a feed item that is not a (chunk, metadata) pair of the 'messages'
\* mode, or whose AI chunk has empty content, is skipped: the formatter
\* stays in its loop without an error, emits nothing and leaves both
\* buffers as they were.
C9_BadItemsSkipped ==
    [][ (pc = "stream" /\ Len(events') = Len(events) + 1) =>
          LET item == events'[Len(events')] IN
          (~item.pair \/ (item.chunk.cls = "AIMessageChunk" /\ Len(item.chunk.content) = 0)) =>
              /\ pc' = "stream"
              /\ out' = out
              /\ content_buffer' = content_buffer
              /\ reasoning_buffer' = reasoning_buffer
      ]_vars

\* C10: once the router has run, an intent that is absent or is neither
\* small_talk nor main_agent means the turn is over with the router as the
\* only node run; an intent of small_talk means the node after the router
\* is smalltalk.
C10_RouterFailsClosed ==
    Len(visited) >= 1 =>
        /\ visited[1] = "router"
        /\ intent \notin {"small_talk", "main_agent"} =>
               gnode = "END" /\ visited = <<"router">>
        /\ intent = "small_talk" =>
               /\ Len(visited) = 1 => gnode = "smalltalk"
               /\ Len(visited) >= 2 => visited[2] = "smalltalk"

C10_Witness ==
    /\ intent = "other"
    /\ Len(messages) > 0
    /\ visited = <<"router">>
    /\ gnode = "END"

\* ------------------------------------------------------- graph properties
Last(q)        == q[Len(q)]
IsPrefix(p, q) == Len(p) <= Len(q) /\ SubSeq(q, 1, Len(p)) = p
Count(q, x)    == Cardinality({i \in 1..Len(q) : q[i] = x})

\* C11: in a turn whose intent is main_agent the node after the router is
\* check_profile, it runs exactly once, and the agent first runs right
\* after it.
C11_ProfileCheckBeforeReasoning ==
    (Len(visited) >= 1 /\ intent = "main_agent") =>
        /\ Len(visited) = 1 => gnode = "check_profile"
        /\ Len(visited) >= 2 => visited[2] = "check_profile"
        /\ Len(visited) >= 3 => visited[3] = "agent" /\ Count(visited, "check_profile") = 1

\* C12: right after an agent step the next node is tools exactly when the
\* last message of the transcript requests at least one tool call, and is
\* the end otherwise; on an empty transcript the edge leads to the end.
C12_ToolsIffToolCalls ==
    /\ AgentPaths[should_use_tools(<<>>)] = "END"
    /\ (Len(visited) >= 1 /\ Last(visited) = "agent") =>
          /\ gnode = "tools" <=> (Len(messages) > 0 /\ Last(messages).tool_calls >= 1)
          /\ gnode # "tools" => gnode = "END"

C12_Witness ==
    /\ Len(visited) = 4
    /\ Last(visited) = "agent"
    /\ visited[2] = "agent" /\ visited[3] = "tools"
    /\ Last(messages).tool_calls = 0
    /\ gnode = "END"

C14_SmalltalkTurn ==
    [][ intent' = "small_talk" =>
          /\ visited' \in {<<"router">>, <<"router", "smalltalk">>}
          /\ Len(visited') = 1 => gnode' = "smalltalk"
          /\ Len(visited') = 2 => gnode' = "END"
          /\ user_profile' = user_profile
          /\ profile_complete' = profile_complete
      ]_vars

C14_Witness ==
    /\ intent = "small_talk"
    /\ visited = <<"router", "smalltalk">>
    /\ gnode = "END"
    /\ Len(messages) = 3
    /\ Last(messages).role = "assistant"

\* C19: every step of the graph leaves the transcript it found as a prefix
\* of the transcript it leaves: messages are only appended.
C19_TranscriptAppendOnly ==
    [][IsPrefix(messages, messages')]_vars

C19_Witness ==
    /\ visited = <<"router", "agent", "tools", "agent">>
    /\ gnode = "END"
    /\ Len(messages) = 6
    /\ messages[1].role = "user" /\ messages[2].role = "user"

\* C20: a tools step in which a tool fails still hands over to the agent,
\* with the failure appended to the transcript as a tool message; the run
\* never ends with the tool's error.
C20_ToolFailureRecovered ==
    [][ gnode = "tools" =>
          /\ gnode' = "agent"
          /\ Len(messages') = Len(messages) + Last(messages).tool_calls
          /\ \A j \in (Len(messages) + 1)..Len(messages') :
                 messages'[j].role = "tool" /\ messages'[j].content \in {"ok", "error"}
      ]_vars


\* --------------------------------------------------------- UserProfile
Updates == extract_profile_updates(messages)
Checked == Len(visited) > 0 /\ Last(visited) = "check_profile"
GoalLists == {<<>>, <<"retirement">>, <<"house", "retirement">>}

\* C16: a check of the profile keeps every field that was set: the field
\* stays set, and keeps its value when the extraction detects no value for
\* it; the goals are never touched.
C16_SetFieldsKept ==
    [][visited' # visited =>
         /\ \A f \in ProfileFields \cap DOMAIN user_profile :
               /\ f \in DOMAIN user_profile'
               /\ f \notin DOMAIN Updates => user_profile'[f] = user_profile[f]
         /\ user_profile'.financial_goals = user_profile.financial_goals]_vars
C16_Witness ==
    /\ Checked
    /\ Len(messages) > 0
    /\ "age" \in DOMAIN user_profile /\ user_profile.age = 50
    /\ "age" \notin DOMAIN Updates
    /\ "risk_tolerance" \in DOMAIN Updates

\* C17: the age the extraction returns, and the age stored in the profile,
\* is absent or between 18 and 120; a matched number outside the range
\* leaves the age as it was.
C17_AgeInRange ==
    /\ "age" \in DOMAIN Updates => Updates.age \in 18..120
    /\ "age" \in DOMAIN user_profile => user_profile.age \in 18..120
    /\ \A i \in 1..Len(messages) :
         LET m == AgeMatch(lower(messages[i].content)) IN
         (messages[i].role = "user" /\ Len(m) > 0 /\ m[1] \notin 18..120)
            => AgeUpdate(lower(messages[i].content)) = <<>>
C17_Witness ==
    /\ Checked
    /\ Len(messages) = 1
    /\ AgeMatch(lower(messages[1].content)) = <<200>>
    /\ messages[1].role = "user"
    /\ "age" \notin DOMAIN user_profile

\* C18: the profile is complete exactly when age, risk tolerance and time
\* horizon are all set; the financial goals make no difference, and the
\* flag a check stores is this value.
C18_CompleteIffThreeFields ==
    /\ is_complete(user_profile) <=> ProfileFields \subseteq DOMAIN user_profile
    /\ \A g \in GoalLists :
         is_complete([user_profile EXCEPT !.financial_goals = g])
            <=> is_complete(user_profile)
    /\ profile_complete <=> ProfileFields \subseteq DOMAIN user_profile
C18_Witness ==
    /\ Checked
    /\ profile_complete
    /\ user_profile.financial_goals = <<>>
    /\ Len(messages) > 0 /\ DOMAIN Updates = ProfileFields

\* ------------------------------------------- classification failure
NoValidIntent == intent \in IntentValues \ {"small_talk", "main_agent"}
RouterOnly == /\ visited = <<"router">>
              /\ \A i \in 1..Len(events) : events[i].node = "router"

IsStringChunk(item) ==
    /\ item.pair
    /\ item.chunk.cls = "AIMessageChunk"
    /\ item.chunk.ctype = "str"
    /\ Len(item.chunk.content) > 0

\* C25: an AI chunk whose content is a non-empty plain string is parsed
\* into a choice whose delta carries that text as content.
C25_StringContentParsed ==
    \A i \in 1..Len(events) :
        IsStringChunk(events[i]) =>
            LET choice == parse_message_chunk(events[i].chunk) IN
            /\ choice # None
            /\ FieldText(choice.delta, "content") = NormalizeNewlines(events[i].chunk.content)

RECURSIVE FieldPieces(_, _)
\* The pieces of field f in the emitted sequence o, concatenated in order:
\* the text of each delta before the separator the formatter ends it with.
FieldPieces(o, f) ==
    IF Len(o) = 0 THEN <<>>
    ELSE (IF Carries(o[1], f)
          THEN SubSeq(Delta(o[1])[f], 1, Len(Delta(o[1])[f]) - 1)
          ELSE <<>>) \o FieldPieces(Tail(o), f)

\* C26: the emitted sequence only grows at its end, so a chunk caused by an
\* event precedes every chunk caused by a later event; a chunk emitted for
\* an event is of the field that event delivered text for; and while the
\* feed runs, the pieces emitted for a field followed by the field's buffer
\* are the text received for it, in arrival order.
C26_EmissionInArrivalOrder ==
    [][ /\ IsPrefix(out, out')
        /\ (pc = "stream" /\ Len(events') = Len(events) + 1) =>
              LET item == events'[Len(events')] IN
              \A i \in (Len(out) + 1)..Len(out') :
                  \E f \in Fields : Carries(out'[i], f) /\ Len(Appended(item, f)) > 0
        /\ pc' = "stream" =>
              \A f \in Fields :
                  FieldPieces(out', f) \o Buffer(f)' = NormalizedInput(events', f, ignore_nodes)
      ]_vars
C26_Witness ==
    /\ pc = "stream"
    /\ Len(events) = 2
    /\ Len(out) = 2
    /\ Carries(out[1], "reasoning_content") /\ Len(Appended(events[1], "reasoning_content")) > 0
    /\ Carries(out[2], "content") /\ Len(Appended(events[2], "content")) > 0

C29_RouterNeverVisible ==
    (ignore_nodes = {} /\ \A i \in 1..Len(events) : events[i].node = "router") =>
        \A i \in 1..Len(out) : ~IsData(out[i])

\* ------------------------------------------- cancellation and failure
\* C21: after a failure of the model during the turn the last emitted
\* event is a chunk whose finish_reason tells of the error.
C21_ErrorChunkOnFailure ==
    pc = "failed" =>
        /\ Len(out) >= 1
        /\ IsChunk(Last(out))
        /\ Last(out).choices[1].finish_reason \notin {"null", "stop"}

\* C30: the step that cancels the generator emits nothing, and once it is
\* cancelled nothing is emitted: no buffered text, no stop chunk, no [DONE].
C30_NothingAfterCancel ==
    [][(pc = "cancelled" \/ pc' = "cancelled") => (pc' = "cancelled" /\ out' = out)]_vars
C30_Witness ==
    /\ pc = "cancelled"
    /\ Len(content_buffer) > 0
    /\ Len(out) = 1 /\ IsData(out[1])

\* ------------------------------------------------------------ termination
\* C28: when the graph has reached the end, the formatter eventually
\* finishes: the emitted sequence ends with the stop chunk and [DONE], and
\* no text is left held back in a buffer.
C28_TurnTerminates ==
    (gnode = "END") ~>
        (/\ pc = "finished"
         /\ Len(out) >= 2
         /\ IsStop(out[Len(out) - 1]) /\ IsDone(out[Len(out)])
         /\ \A f \in Fields :
               FieldPieces(out, f) = NormalizedInput(events, f, ignore_nodes))
C28_Witness ==
    /\ pc = "finished"
    /\ gnode = "END"
    /\ Count(visited, "tools") >= 1
    /\ Last(messages).tool_calls = 0
    /\ Len(out) = 4 /\ IsData(out[1])
    /\ Carries(out[2], "reasoning_content")
    /\ Len(reasoning_buffer) > 0

\* --------------------------------------------------------------- endpoint
Handled  == served' = served + 1
Answered == Handled /\ reply'.status \in {200, 500}

\* C22: a handled request with a user value runs on the thread of that
\* value; one without runs on a thread id not used before; and a thread
\* started without a user value is neither read nor extended by a later
\* request.
C22_AnonymousNotResumable ==
    [][ Answered =>
          /\ HasUser(reply'.request) => reply'.thread_id = reply'.request.user
          /\ ~HasUser(reply'.request) =>
                /\ reply'.thread_id \notin anonymous
                /\ store[reply'.thread_id] = <<>>
          /\ \A t \in anonymous : reply'.thread_id # t /\ store'[t] = store[t]
      ]_vars

\* C23: the response to a completed request with stream = false has object
\* "chat.completion" and one choice with index 0, finish_reason "stop" and
\* an assistant message whose content is the text of the last message of
\* the turn.
C23_NonStreamingResponse ==
    (reply.status = 200 /\ ~reply.request.stream) =>
        LET choices == reply.response.choices IN
        /\ reply.response.object = "chat.completion"
        /\ Len(choices) = 1
        /\ choices[1].index = 0
        /\ choices[1].finish_reason = "stop"
        /\ "message" \in DOMAIN choices[1]
        /\ choices[1].message.role = "assistant"
        /\ choices[1].message.content = FinalText(store[reply.thread_id])

\* C24: a request whose temperature is outside [0, 2], whose messages
\* break the schema or whose token is not the configured one gets a
\* client error status and no response body; no graph is created, no
\* thread is started or changed, and neither the graph nor the stream
\* takes a step.
C24_BadRequestsRejected ==
    [][ Handled =>
          LET r == reply'.request IN
          (\/ r.temperature < 0 \/ r.temperature > 20
           \/ r.token # "valid"
           \/ \E i \in 1..Len(r.messages) : r.messages[i].role \notin ValidRoles) =>
              /\ reply'.status \in 400..499
              /\ reply'.response = None
              /\ UNCHANGED <<store, anonymous, graphs, streamVars, graphVars>>
      ]_vars
C24_Witness ==
    /\ served = 2
    /\ reply.status = 422
    /\ reply.request.temperature = 21
    /\ reply.request.token = "valid"
    /\ Len(store[<<"alice">>]) = 2
    /\ graphs = {0}

\* ------------------------------------------------------ profile summary
\* The summary asks for information when it is the text of the empty
\* profile (which asks for age, risk tolerance, time horizon and goals) or
\* has the "Missing information:" paragraph; Asked is the set of the three
\* fields it asks for.
Label == [age |-> "age", risk_tolerance |-> "risk tolerance",
          time_horizon_years |-> "time horizon"]
HasDirective(summary) == summary.opening = "none" \/ Len(summary.missing) > 0
Asked(summary) ==
    IF summary.opening = "none" THEN ProfileFields
    ELSE {f \in ProfileFields : \E i \in 1..Len(summary.missing) : summary.missing[i] = Label[f]}

\* C31: the summary of the stored profile asks for missing information
\* exactly when the profile is not complete, and asks for exactly the
\* fields among age, risk tolerance and time horizon that are not set.
C31_DirectiveIffIncomplete ==
    LET summary == format_profile_summary(user_profile) IN
    /\ HasDirective(summary) <=> ~is_complete(user_profile)
    /\ Asked(summary) = ProfileFields \ DOMAIN user_profile


\* ------------------------------------------------- one extraction pass
\* Two maps with the same keys and the same values.
SameMap(a, b) == DOMAIN a = DOMAIN b /\ \A k \in DOMAIN a : a[k] = b[k]
Max(S) == CHOOSE x \in S : \A y \in S : y <= x
\* What the message at position i yields on its own, and the positions of
\* the user messages that yield a value for field f.
MessageUpdates(i) == extract_profile_updates(<<messages[i]>>)
Yielding(f) ==
    {i \in 1..Len(messages) : messages[i].role = "user" /\ f \in DOMAIN MessageUpdates(i)}
\* A number in the range of the sanity check that the second or the third
\* age pattern matches.
LaterAgePatternInRange(c) ==
    \E i \in 1..Len(c) :
        /\ IsNumAt(c, i) /\ c[i].n \in 18..120
        /\ \/ IsWord(c, i + 1, {"years"}) /\ IsWord(c, i + 2, {"old"})
           \/ IsWord(c, i - 1, EndsWithAge)

\* C32: in one pass the value of a field is the one of the last user
\* message that yields a value for it, and the field is left out when no
\* message yields one; a message whose first matching age pattern captures
\* a number outside 18..120 yields no age, even when a later pattern would
\* capture a number in range, so the age of an earlier message stays.
C32_LastAcceptedValueWins ==
    /\ \A f \in ProfileFields :
          /\ f \in DOMAIN Updates <=> Yielding(f) # {}
          /\ Yielding(f) # {} => Updates[f] = MessageUpdates(Max(Yielding(f)))[f]
    /\ \A i \in 1..Len(messages) :
          LET c == lower(messages[i].content) IN
          ( /\ messages[i].role = "user"
            /\ Len(AgeMatch(c)) > 0 /\ AgeMatch(c)[1] \notin 18..120
            /\ LaterAgePatternInRange(c) )
          => "age" \notin DOMAIN MessageUpdates(i)
C32_Witness ==
    /\ Checked
    /\ Len(messages) = 2
    /\ messages[1] = HumanMessage(<<Word("age:"), Num(42)>>)
    /\ messages[2].role = "user"
    /\ AgeMatch(lower(messages[2].content)) = <<200>>
    /\ LaterAgePatternInRange(lower(messages[2].content))
    /\ user_profile.age = 42

\* The risk tolerance the branch order gives a lowered message content, as
\* a sequence of zero or one element.
RiskByOrder(c) ==
    LET risk == Contains(c, "risk") IN
    IF Contains(c, "conservative") /\ risk THEN <<"conservative">>
    ELSE IF Contains(c, "aggressive") /\ risk THEN <<"aggressive">>
    ELSE IF Contains(c, "moderate") /\ risk THEN <<"moderate">>
    ELSE IF HasPhrase(c, <<"i", "prefer", "conservative">>) \/ HasPhrase(c, <<"low", "risk">>)
    THEN <<"conservative">>
    ELSE IF HasPhrase(c, <<"i", "prefer", "aggressive">>) \/ HasPhrase(c, <<"high", "risk">>)
    THEN <<"aggressive">>
    ELSE <<>>

\* C33: the risk tolerance a user message yields is the one of the first
\* branch it satisfies, in the order conservative, aggressive, moderate
\* (each with "risk"), then the direct phrases; a message that satisfies no
\* branch yields none.
C33_RiskBranchOrder ==
    \A i \in 1..Len(messages) :
        LET c == lower(messages[i].content)
            r == RiskByOrder(c)
        IN  messages[i].role = "user" =>
              /\ "risk_tolerance" \in DOMAIN MessageUpdates(i) <=> Len(r) > 0
              /\ Len(r) > 0 => MessageUpdates(i).risk_tolerance = r[1]
C33_Witness ==
    /\ Checked
    /\ Len(messages) = 1
    /\ messages[1] = HumanMessage(<<Word("aggressive"), Word("risk"), Word("conservative")>>)
    /\ user_profile.risk_tolerance = "conservative"

\* The user messages of a transcript, in order.
RECURSIVE UserOnly(_)
UserOnly(msgs) ==
    IF Len(msgs) = 0 THEN <<>>
    ELSE (IF Head(msgs).role = "user" THEN <<Head(msgs)>> ELSE <<>>)
         \o UserOnly(Tail(msgs))

\* C34: the updates of a transcript are those of the transcript without
\* its messages of other roles, and a check leaves the transcript as it is
\* and changes the profile by these updates only.
C34_OnlyUserMessagesCount ==
    [][ /\ SameMap(Updates, extract_profile_updates(UserOnly(messages)))
        /\ visited' # visited =>
              /\ messages' = messages
              /\ SameMap(user_profile',
                         extract_profile_updates(UserOnly(messages)) @@ user_profile)
      ]_vars
C34_Witness ==
    /\ Checked
    /\ Len(messages) = 2
    /\ messages[1] = HumanMessage(<<Word("I'm"), Num(35), Word("years"), Word("old")>>)
    /\ messages[2] = AIMessage(AssistantContent, 0)
    /\ user_profile.age = 35

\* ------------------------------------------------- blocks and newlines
\* The event the loop has just consumed.
Consumed  == pc = "stream" /\ Len(events') = Len(events) + 1
LastEvent == events'[Len(events')]
\* A (chunk, metadata) pair of a node that is not ignored whose first block
\* is a dict of a type other than text and thinking.
HasOtherBlock(item) ==
    /\ item.pair /\ item.node \notin ignore_nodes
    /\ item.chunk.cls = "AIMessageChunk" /\ item.chunk.ctype = "list"
    /\ Len(item.chunk.content) > 0
    /\ item.chunk.content[1].type \notin {"text", "thinking", "str"}

\* C35: an event of a node that is not ignored whose content block is
\* neither text nor thinking is dropped: the formatter stays in its loop,
\* emits nothing, and both buffers and the role flag stay as they were.
C35_OtherBlocksDropped ==
    [][ (Consumed /\ HasOtherBlock(LastEvent)) =>
          /\ pc' = "stream"
          /\ out' = out
          /\ content_buffer' = content_buffer
          /\ reasoning_buffer' = reasoning_buffer
          /\ is_first_chunk' = is_first_chunk
      ]_vars
C35_Witness ==
    /\ pc = "stream"
    /\ Len(events) = 2
    /\ HasOtherBlock(events[2])
    /\ content_buffer = <<"a">>
    /\ is_first_chunk
    /\ out = <<>>

RECURSIVE RawInput(_, _, _)
\* The text received for field f before any normalisation, in arrival
\* order.
RawInput(evs, f, ign) ==
    IF Len(evs) = 0 THEN <<>>
    ELSE (IF evs[1].pair /\ evs[1].node \notin ign THEN Fragment(evs[1], f) ELSE <<>>)
         \o RawInput(Tail(evs), f, ign)
Newlines(s) == Cardinality({i \in 1..Len(s) : s[i] = NL})
DoubleNewline(s) == \E i \in 1..(Len(s) - 1) : s[i] = NL /\ s[i + 1] = NL

\* C36: when the turn has finished, the text delivered for a field holds
\* no two newlines in a row, and holds one newline for each run of newlines
\* in the text received for the field, also for a run that lies across two
\* fragments.
C36_NewlineRunsCollapsed ==
    pc = "finished" =>
        \A f \in Fields :
            /\ ~DoubleNewline(FieldDeltas(out, f))
            /\ Newlines(FieldDeltas(out, f))
                 = Newlines(NormalizeNewlines(RawInput(events, f, ignore_nodes)))

RECURSIVE BlocksText(_, _)
\* The normalised text of the blocks of a content list that belong to
\* field f, in order.
BlocksText(content, f) ==
    IF Len(content) = 0 THEN <<>>
    ELSE LET b == Head(content) IN
         (IF f = "content" /\ b.type = "text" THEN NormalizeNewlines(b.text)
          ELSE IF f = "reasoning_content" /\ b.type = "thinking"
          THEN NormalizeNewlines(b.thinking)
          ELSE <<>>) \o BlocksText(Tail(content), f)
RECURSIVE AllBlocksInput(_, _, _)
\* The text of every block received for field f, in arrival order.
AllBlocksInput(evs, f, ign) ==
    IF Len(evs) = 0 THEN <<>>
    ELSE (IF /\ evs[1].pair /\ evs[1].node \notin ign
             /\ evs[1].chunk.cls = "AIMessageChunk" /\ evs[1].chunk.ctype = "list"
          THEN BlocksText(evs[1].chunk.content, f) ELSE <<>>)
         \o AllBlocksInput(Tail(evs), f, ign)

\* C37: when the turn has finished, the pieces emitted for a field are the
\* text of every text or thinking block received for it, the blocks after
\* the first one of an event included.
C37_EveryBlockEmitted ==
    pc = "finished" =>
        \A f \in Fields :
            FieldPieces(out, f) = AllBlocksInput(events, f, ignore_nodes)

\* C38: while the loop runs no buffer holds a newline; an event that
\* delivers no text for a field leaves that field's buffer as it was and
\* emits no chunk of that field.
C38_BuffersHoldNoNewline ==
    [][ /\ pc' = "stream" =>
              ~HasNewline(content_buffer') /\ ~HasNewline(reasoning_buffer')
        /\ (Consumed /\ LastEvent.pair) =>
              \A f \in Fields :
                  Len(Appended(LastEvent, f)) = 0 =>
                      /\ Buffer(f)' = Buffer(f)
                      /\ \A i \in (Len(out) + 1)..Len(out') : ~Carries(out'[i], f)
      ]_vars
C38_Witness ==
    /\ pc = "stream"
    /\ Len(events) = 2
    /\ Appended(events[2], "content") = <<NL, "a">>
    /\ reasoning_buffer = <<"a">>
    /\ content_buffer = <<"a">>
    /\ Len(out) = 1
    /\ Carries(out[1], "content")

\* ---------------------------------------------------- the system message
\* C39: an agent step appends exactly one message, the model's response,
\* and no message of the transcript is a system message.
C39_SystemMessageNotStored ==
    [][ /\ (gnode = "agent" /\ visited' # visited) =>
              /\ Len(messages') = Len(messages) + 1
              /\ IsPrefix(messages, messages')
              /\ Last(messages').role = "assistant"
        /\ \A i \in 1..Len(messages') : messages'[i].role # "system"
      ]_vars
C39_Witness ==
    /\ visited = <<"router", "agent", "tools", "agent">>
    /\ gnode = "END"
    /\ Len(messages) = 4
    /\ messages[2].role = "assistant" /\ messages[3].role = "tool"
    /\ messages[4].role = "assistant"
    /\ llm_messages(user_profile, messages)[1].role = "system"

\* ------------------------------------------------- the messages handed over
RECURSIVE UserTexts_of(_)
\* The contents of the user messages of a list of request messages, in
\* order.
UserTexts_of(ms) ==
    IF Len(ms) = 0 THEN <<>>
    ELSE (IF Head(ms).role = "user" THEN <<Head(ms).content>> ELSE <<>>)
         \o UserTexts_of(Tail(ms))

\* C40: a request that is answered, streaming or not, adds to its thread
\* the user messages of the request, in their order, as human messages,
\* followed by at most the answer of the turn; the system and assistant
\* messages of the request are not added.
C40_OnlyUserMessagesHandedOver ==
    [][ Answered =>
          LET r      == reply'.request
              tid    == reply'.thread_id
              before == store[tid]
              after  == store'[tid]
              texts  == UserTexts_of(r.messages)
              n      == Len(before)
          IN  /\ IsPrefix(before, after)
              /\ Len(after) \in {n + Len(texts), n + Len(texts) + 1}
              /\ \A i \in 1..Len(texts) :
                    /\ after[n + i].role = "user"
                    /\ after[n + i].content = StrContent(texts[i])
              /\ Len(after) = n + Len(texts) + 1 => Last(after).role = "assistant"
      ]_vars
C40_Witness ==
    /\ served = 1
    /\ reply.status = 200
    /\ reply.request.stream
    /\ Len(reply.request.messages) = 4
    /\ reply.request.messages[1].role = "system"
    /\ reply.request.messages[3].role = "assistant"
    /\ Len(store[reply.thread_id]) = 3
    /\ store[reply.thread_id][1] = HumanMessage(StrContent(<<"h">>))
    /\ store[reply.thread_id][2] = HumanMessage(StrContent(<<"g">>))
    /\ store[reply.thread_id][3].role = "assistant"

====
